---- MODULE Spec2Model ----
(***************************************************************************)
(* CH341 compatibility layer over the CH347 driver (src/ch341_compat.c).   *)
(* The shim's globals are the state; every exported CH341* function is an  *)
(* operator on a record of those globals, and an action applies it.  The   *)
(* CH347 driver library and the OS loader are the environment: which       *)
(* library files exist and what they export is fixed at start, and every   *)
(* value a driver call returns is chosen freely.                           *)
(***************************************************************************)
EXTENDS Integers, Sequences, FiniteSets, TLC

\* ------------------------------------------------------------ constants
mCH341_MAX_NUMBER == 16
IC_VER_CH341A == 32
IC_VER_CH341A3 == 48
NULL == 0
INVALID_HANDLE_VALUE == -1
BTRUE == 1
BFALSE == 0

\* ------------------------------------------------------------ bounds
\* in-range device indices tried: the last MaxIdx + 1 slots
MaxIdx == 0
\* distinct valid handles the driver may return
MaxHandles == 1
\* distinct caller-supplied interrupt routines
MaxCallbacks == 1
\* threads making their first public call at the same time
MaxThreads == 2

Slots == 0 .. (mCH341_MAX_NUMBER - 1)
InRangeInputs == {mCH341_MAX_NUMBER - 1 - k : k \in 0 .. MaxIdx}
OutOfRangeInputs == {mCH341_MAX_NUMBER}
IndexInputs == InRangeInputs \cup OutOfRangeInputs
HandleResults == {NULL, INVALID_HANDLE_VALUE} \cup (1 .. MaxHandles)
BoolResults == {BFALSE, BTRUE}
Callbacks == 1 .. MaxCallbacks
UBOutcomes == {"run", "crash"}

\* ------------------------------------------------------------ driver symbols
Symbols ==
  { "CH347OpenDevice", "CH347CloseDevice", "CH347GetVersion", "CH347GetChipType",
    "CH347SetTimeout", "CH347GetDeviceInfor", "CH347SetDeviceNotify",
    "CH347ReadData", "CH347WriteData", "CH347I2C_Set", "CH347I2C_SetDelaymS",
    "CH347StreamI2C", "CH347ReadEEPROM", "CH347WriteEEPROM", "CH347SPI_Init",
    "CH347SPI_SetFrequency", "CH347SPI_GetCfg", "CH347SPI_WriteRead",
    "CH347StreamSPI4", "CH347GPIO_Get", "CH347GPIO_Set", "CH347SetIntRoutine",
    "CH347ReadInter", "CH347AbortInter" }

\* The two file names LoadCH347DLL tries, in order; a module handle is the
\* position of its file name here.
LibNames == << "CH347DLL.DLL", "CH347DLLA64.DLL" >>
Modules == 1 .. Len(LibNames)

\* A library file of the environment: absent, or present with its exports.
NoLib == [present |-> FALSE, exports |-> {}]
Lib(missing) == [present |-> TRUE, exports |-> Symbols \ missing]

\* The environments tried: the primary file alone, complete or without one
\* capability; no file at all; the fallback file alone; and a primary
\* without an essential symbol next to a complete fallback.
EssentialCases ==
  { << Lib({"CH347OpenDevice"}), NoLib >>, << Lib({"CH347CloseDevice"}), NoLib >>,
    << NoLib, NoLib >>, << NoLib, Lib({}) >>, << NoLib, Lib({"CH347OpenDevice"}) >>,
    << Lib({"CH347CloseDevice"}), Lib({}) >> }
PrimaryWithout(missingSets) == { << Lib(m), NoLib >> : m \in missingSets }
Environments ==
  EssentialCases \cup
  PrimaryWithout({ {}, {"CH347SPI_Init"}, {"CH347StreamSPI4"},
                   {"CH347StreamSPI4", "CH347SPI_WriteRead"} })
EnvironmentsFwd ==
  EssentialCases \cup PrimaryWithout({ {}, {"CH347StreamI2C"}, {"CH347GPIO_Set"} })
EnvironmentsInt ==
  EssentialCases \cup PrimaryWithout({ {}, {"CH347SetIntRoutine"} })

VARIABLES
  libs,                   \* the library files of the environment
  g_hCH347DLL, g_bInitialized, fp, refcnt,
  g_DeviceHandles, g_DeviceNames, g_StreamMode, g_SPIInitialized,
  g_IntRoutines, g_NotifyRoutines, g_BufUploadEnabled, g_BufDownloadEnabled,
  proc,                   \* "running", "detached" or "crashed"
  op, ret, calls, osCalls, pre,   \* the last operation, as observed
  out,                    \* what it stored through its output pointer, if anything
  inp,                    \* its arguments other than the index, where recorded
  everReady, attempted, lastOpenOk, spiCfgOk, phase,   \* history
  initFailed,             \* per slot: its last transfer made an SPI_Init call that failed
  tgtInt,                 \* per index: the driver holds the trampoline
  tpc, ti, tcached, tstatus, invoked,   \* the trampoline's run on a driver thread
  roundTrip,              \* the last register-then-unregister pair of calls
  unregistered,           \* routines unregistered by such a pair and not registered since
  tUnregAtEntry,          \* those of them unregistered before the trampoline's run began
  lateInvoked,            \* those of them the trampoline has called all the same
  lpc, writers, loads     \* threads inside LoadCH347DLL

bindVars == << g_hCH347DLL, g_bInitialized, fp, refcnt >>
slotVars == << g_DeviceHandles, g_DeviceNames, g_StreamMode, g_SPIInitialized,
               g_IntRoutines, g_NotifyRoutines, g_BufUploadEnabled,
               g_BufDownloadEnabled >>
obsVars == << op, ret, calls, osCalls, pre, out, inp >>
histVars == << everReady, attempted, lastOpenOk, spiCfgOk, phase, initFailed >>
rtVars == << roundTrip, unregistered, tUnregAtEntry, lateInvoked >>
intVars == << tgtInt, tpc, ti, tcached, tstatus, invoked, rtVars >>
thrVars == << lpc, writers, loads >>
vars == << libs, bindVars, slotVars, proc, obsVars, histVars, intVars, thrVars >>

\* ------------------------------------------------------------ program state
\* The globals as one record, with the driver calls and loader calls made
\* so far by the running operation.
State ==
  [ hDLL |-> g_hCH347DLL, init |-> g_bInitialized, fp |-> fp, refcnt |-> refcnt,
    handles |-> g_DeviceHandles, names |-> g_DeviceNames, mode |-> g_StreamMode,
    spi |-> g_SPIInitialized, intr |-> g_IntRoutines, notify |-> g_NotifyRoutines,
    bufUp |-> g_BufUploadEnabled, bufDown |-> g_BufDownloadEnabled,
    calls |-> << >>, os |-> << >>, out |-> << >>, inp |-> << >>, crashed |-> FALSE, detached |-> FALSE ]

SlotTable(s) ==
  << s.handles, s.names, s.mode, s.spi, s.intr, s.notify, s.bufUp, s.bufDown >>

\* ------------------------------------------------------------ OS loader
LoadLibraryA(s, k) ==
  IF libs[k].present
  THEN [ st |-> [s EXCEPT !.refcnt[k] = @ + 1,
                          !.os = Append(@, [fn |-> "LoadLibraryA", lib |-> k])],
         ret |-> k ]
  ELSE [ st |-> [s EXCEPT !.os = Append(@, [fn |-> "LoadLibraryA", lib |-> k])],
         ret |-> NULL ]

GetProcAddress(h, sym) ==
  IF h \in Modules /\ sym \in libs[h].exports THEN h ELSE NULL

FreeLibrary(s, h) ==
  [s EXCEPT !.refcnt = [k \in Modules |-> IF k = h /\ @[k] > 0 THEN @[k] - 1 ELSE @[k]],
            !.os = Append(@, [fn |-> "FreeLibrary", lib |-> h])]

\* A resolved pointer into a module this process no longer holds.
Dangling(s, sym) == s.fp[sym] # NULL /\ s.refcnt[s.fp[sym]] = 0

\* A call through fp_<sym>.  The driver's answer is res.  Through a dangling
\* pointer the call is undefined: it runs what is mapped there, or faults.
CallTarget(s, sym, idx, args, res, ub) ==
  [s EXCEPT !.calls = Append(@, [fn |-> sym, idx |-> idx, args |-> args,
                                 res |-> res, dangling |-> Dangling(s, sym)]),
            !.crashed = (Dangling(s, sym) /\ ub = "crash")]

\* ------------------------------------------------------------ LoadCH347DLL
ResolveAll(s) ==
  [s EXCEPT !.fp = [sym \in Symbols |-> GetProcAddress(s.hDLL, sym)],
            !.os = Append(@, [fn |-> "GetProcAddress", lib |-> s.hDLL])]

LoadCH347DLL(s) ==
  IF s.init THEN [st |-> s, ret |-> TRUE]
  ELSE
    LET a == LoadLibraryA(s, 1)
        s1 == [a.st EXCEPT !.hDLL = a.ret]
        b == IF s1.hDLL = NULL THEN LoadLibraryA(s1, 2) ELSE [st |-> s1, ret |-> s1.hDLL]
        s2 == [b.st EXCEPT !.hDLL = b.ret]
    IN  IF s2.hDLL = NULL THEN [st |-> s2, ret |-> FALSE]
        ELSE
          LET s3 == ResolveAll(s2) IN
          IF s3.fp["CH347OpenDevice"] = NULL \/ s3.fp["CH347CloseDevice"] = NULL
          THEN [st |-> [FreeLibrary(s3, s3.hDLL) EXCEPT !.hDLL = NULL], ret |-> FALSE]
          ELSE [st |-> [s3 EXCEPT !.init = TRUE], ret |-> TRUE]

\* ------------------------------------------------------------ device management
\* snprintf(..., "CH347_%lu", iIndex): the decimal digits of the index
DigitChars == << "0", "1", "2", "3", "4", "5", "6", "7", "8", "9" >>
RECURSIVE Decimal(_)
Decimal(n) ==
  IF n < 10 THEN << DigitChars[n + 1] >>
  ELSE Append(Decimal(n \div 10), DigitChars[(n % 10) + 1])
DeviceName(iIndex) == << "C", "H", "3", "4", "7", "_" >> \o Decimal(iIndex)

\* CH341OpenDevice going on to the driver although LoadCH347DLL failed
CH341OpenDevice_NoLoadCheck(s, iIndex, h, ub) ==
  LET L == LoadCH347DLL(s) IN
  IF iIndex >= mCH341_MAX_NUMBER THEN [st |-> L.st, ret |-> INVALID_HANDLE_VALUE]
  ELSE IF L.st.fp["CH347OpenDevice"] = NULL THEN [st |-> L.st, ret |-> INVALID_HANDLE_VALUE]
  ELSE
    LET s1 == CallTarget(L.st, "CH347OpenDevice", iIndex, << >>, h, ub) IN
    IF s1.crashed THEN [st |-> s1, ret |-> INVALID_HANDLE_VALUE]
    ELSE IF h # INVALID_HANDLE_VALUE /\ h # NULL
    THEN [st |-> [s1 EXCEPT !.handles[iIndex] = h, !.names[iIndex] = DeviceName(iIndex)],
          ret |-> h]
    ELSE [st |-> s1, ret |-> h]

\* h is what CH347OpenDevice returns
\* CH341OpenDevice forgetting the slot when the driver refuses
CH341OpenDevice_ClearsOnFailure(s, iIndex, h, ub) ==
  LET L == LoadCH347DLL(s) IN
  IF ~L.ret THEN [st |-> L.st, ret |-> INVALID_HANDLE_VALUE]
  ELSE IF iIndex >= mCH341_MAX_NUMBER THEN [st |-> L.st, ret |-> INVALID_HANDLE_VALUE]
  ELSE IF L.st.fp["CH347OpenDevice"] = NULL THEN [st |-> L.st, ret |-> INVALID_HANDLE_VALUE]
  ELSE
    LET s1 == CallTarget(L.st, "CH347OpenDevice", iIndex, << >>, h, ub) IN
    IF s1.crashed THEN [st |-> s1, ret |-> INVALID_HANDLE_VALUE]
    ELSE IF h # INVALID_HANDLE_VALUE /\ h # NULL
    THEN [st |-> [s1 EXCEPT !.handles[iIndex] = h, !.names[iIndex] = DeviceName(iIndex)],
          ret |-> h]
    ELSE [st |-> [s1 EXCEPT !.handles[iIndex] = NULL, !.spi[iIndex] = FALSE], ret |-> h]

CH341OpenDevice(s, iIndex, h, ub) ==
  LET L == LoadCH347DLL(s) IN
  IF ~L.ret THEN [st |-> L.st, ret |-> INVALID_HANDLE_VALUE]
  ELSE IF iIndex >= mCH341_MAX_NUMBER THEN [st |-> L.st, ret |-> INVALID_HANDLE_VALUE]
  ELSE IF L.st.fp["CH347OpenDevice"] = NULL THEN [st |-> L.st, ret |-> INVALID_HANDLE_VALUE]
  ELSE
    LET s1 == CallTarget(L.st, "CH347OpenDevice", iIndex, << >>, h, ub) IN
    IF s1.crashed THEN [st |-> s1, ret |-> INVALID_HANDLE_VALUE]
    ELSE IF h # INVALID_HANDLE_VALUE /\ h # NULL
    THEN [st |-> [s1 EXCEPT !.handles[iIndex] = h, !.names[iIndex] = DeviceName(iIndex)],
          ret |-> h]
    ELSE [st |-> s1, ret |-> h]

\* CH341CloseDevice leaving g_SPIInitialized as it was
CH341CloseDevice_KeepsSpi(s, iIndex, ub) ==
  IF iIndex >= mCH341_MAX_NUMBER THEN s
  ELSE IF s.fp["CH347CloseDevice"] = NULL THEN s
  ELSE
    LET s1 == CallTarget(s, "CH347CloseDevice", iIndex, << >>, BTRUE, ub) IN
    IF s1.crashed THEN s1
    ELSE [s1 EXCEPT !.handles[iIndex] = NULL]

\* CH341CloseDevice forgetting the slot's interrupt routine as well
CH341CloseDevice_DropsRoutine(s, iIndex, ub) ==
  IF iIndex >= mCH341_MAX_NUMBER THEN s
  ELSE IF s.fp["CH347CloseDevice"] = NULL THEN s
  ELSE
    LET s1 == CallTarget(s, "CH347CloseDevice", iIndex, << >>, BTRUE, ub) IN
    IF s1.crashed THEN s1
    ELSE [s1 EXCEPT !.handles[iIndex] = NULL, !.spi[iIndex] = FALSE, !.intr[iIndex] = NULL]

CH341CloseDevice(s, iIndex, ub) ==
  IF iIndex >= mCH341_MAX_NUMBER THEN s
  ELSE IF s.fp["CH347CloseDevice"] = NULL THEN s
  ELSE
    LET s1 == CallTarget(s, "CH347CloseDevice", iIndex, << >>, BTRUE, ub) IN
    IF s1.crashed THEN s1
    ELSE [s1 EXCEPT !.handles[iIndex] = NULL, !.spi[iIndex] = FALSE]

CH341ResetDevice(s, iIndex, h, ub) ==
  IF iIndex >= mCH341_MAX_NUMBER THEN [st |-> s, ret |-> BFALSE]
  ELSE
    LET s1 == CH341CloseDevice(s, iIndex, ub) IN
    IF s1.crashed THEN [st |-> s1, ret |-> BFALSE]
    ELSE LET r == CH341OpenDevice(s1, iIndex, h, ub) IN
         [st |-> r.st, ret |-> IF r.ret # INVALID_HANDLE_VALUE THEN BTRUE ELSE BFALSE]

\* chipType is the UCHAR that CH347GetChipType returns
CH341GetVerIC(s, iIndex, chipType, ub) ==
  LET L == LoadCH347DLL(s) IN
  IF ~L.ret THEN [st |-> L.st, ret |-> 0]
  ELSE IF L.st.fp["CH347GetChipType"] = NULL THEN [st |-> L.st, ret |-> IC_VER_CH341A]
  ELSE
    LET s1 == CallTarget(L.st, "CH347GetChipType", iIndex, << >>, chipType, ub) IN
    [st |-> s1,
     ret |-> CASE chipType = 0 -> IC_VER_CH341A
               [] chipType = 1 -> IC_VER_CH341A3
               [] chipType = 2 -> IC_VER_CH341A3
               [] chipType = 3 -> IC_VER_CH341A3
               [] OTHER -> IC_VER_CH341A]

\* ------------------------------------------------------------ SPI
\* the SpiCfgS fields in declaration order
SpiCfg(iChipSelect) == << 0, 1, 1, 0, 255, iChipSelect, 0, 0, 1, 0, 0 >>

InitSPIForCH341(s, iIndex, iChipSelect, res, ub) ==
  IF s.fp["CH347SPI_Init"] = NULL THEN [st |-> s, ret |-> BFALSE]
  ELSE [st |-> CallTarget(s, "CH347SPI_Init", iIndex, SpiCfg(iChipSelect), res, ub),
        ret |-> res]

\* the transfer itself, once the peripheral is initialized
SPI4Forward(s, iIndex, iChipSelect, dataRes, ub) ==
  IF s.fp["CH347StreamSPI4"] # NULL
  THEN [st |-> CallTarget(s, "CH347StreamSPI4", iIndex, << iChipSelect >>, dataRes, ub),
        ret |-> dataRes]
  ELSE IF s.fp["CH347SPI_WriteRead"] # NULL
  THEN [st |-> CallTarget(s, "CH347SPI_WriteRead", iIndex, << iChipSelect >>, dataRes, ub),
        ret |-> dataRes]
  ELSE [st |-> s, ret |-> BFALSE]

\* CH341StreamSPI4 initializing the peripheral on every transfer
CH341StreamSPI4_AlwaysInit(s, iIndex, iChipSelect, initRes, dataRes, ub) ==
  LET L == LoadCH347DLL(s) IN
  IF ~L.ret THEN [st |-> L.st, ret |-> BFALSE]
  ELSE IF iIndex >= mCH341_MAX_NUMBER THEN [st |-> L.st, ret |-> BFALSE]
  ELSE LET i == InitSPIForCH341(L.st, iIndex, iChipSelect, initRes, ub) IN
       IF i.ret = BFALSE \/ i.st.crashed THEN [st |-> i.st, ret |-> BFALSE]
       ELSE SPI4Forward([i.st EXCEPT !.spi[iIndex] = TRUE], iIndex, iChipSelect, dataRes, ub)

\* CH341StreamSPI4 marking the slot initialized whatever CH347SPI_Init answered
CH341StreamSPI4_MarksOnFailure(s, iIndex, iChipSelect, initRes, dataRes, ub) ==
  LET L == LoadCH347DLL(s) IN
  IF ~L.ret THEN [st |-> L.st, ret |-> BFALSE]
  ELSE IF iIndex >= mCH341_MAX_NUMBER THEN [st |-> L.st, ret |-> BFALSE]
  ELSE IF ~L.st.spi[iIndex]
  THEN LET i == InitSPIForCH341(L.st, iIndex, iChipSelect, initRes, ub) IN
       IF i.ret = BFALSE \/ i.st.crashed
       THEN [st |-> [i.st EXCEPT !.spi[iIndex] = (i.st.calls # << >>)], ret |-> BFALSE]
       ELSE SPI4Forward([i.st EXCEPT !.spi[iIndex] = TRUE], iIndex, iChipSelect, dataRes, ub)
  ELSE SPI4Forward(L.st, iIndex, iChipSelect, dataRes, ub)

CH341StreamSPI4(s, iIndex, iChipSelect, initRes, dataRes, ub) ==
  LET L == LoadCH347DLL(s) IN
  IF ~L.ret THEN [st |-> L.st, ret |-> BFALSE]
  ELSE IF iIndex >= mCH341_MAX_NUMBER THEN [st |-> L.st, ret |-> BFALSE]
  ELSE IF ~L.st.spi[iIndex]
  THEN LET i == InitSPIForCH341(L.st, iIndex, iChipSelect, initRes, ub) IN
       IF i.ret = BFALSE \/ i.st.crashed THEN [st |-> i.st, ret |-> BFALSE]
       ELSE SPI4Forward([i.st EXCEPT !.spi[iIndex] = TRUE], iIndex, iChipSelect, dataRes, ub)
  ELSE SPI4Forward(L.st, iIndex, iChipSelect, dataRes, ub)

\* ------------------------------------------------------------ I2C
\* iMode & 0x03 goes to the driver as the I2C speed
CH341SetStream(s, iIndex, iMode, res, ub) ==
  LET L == LoadCH347DLL([s EXCEPT !.inp = << iMode >>]) IN
  IF ~L.ret THEN [st |-> L.st, ret |-> BFALSE]
  ELSE IF iIndex >= mCH341_MAX_NUMBER THEN [st |-> L.st, ret |-> BFALSE]
  ELSE
    LET s1 == [L.st EXCEPT !.mode[iIndex] = iMode] IN
    IF s1.fp["CH347I2C_Set"] # NULL
    THEN [st |-> CallTarget(s1, "CH347I2C_Set", iIndex, << iMode % 4 >>, res, ub), ret |-> res]
    ELSE [st |-> s1, ret |-> BTRUE]

\* The arguments recorded for a CH347StreamI2C call are the write length, the
\* bytes of writeBuf and the read length.  (UCHAR)(iDevice << 1) keeps the low
\* 8 bits.

\* CH341ReadI2C sending the device address unshifted
CH341ReadI2C_Unshifted(s, iIndex, iDevice, iAddr, oByte, res, ub) ==
  LET L == LoadCH347DLL([s EXCEPT !.inp = << iDevice, iAddr, oByte >>]) IN
  IF ~L.ret THEN [st |-> L.st, ret |-> BFALSE]
  ELSE IF L.st.fp["CH347StreamI2C"] = NULL THEN [st |-> L.st, ret |-> BFALSE]
  ELSE IF oByte = NULL THEN [st |-> L.st, ret |-> BFALSE]
  ELSE [st |-> CallTarget(L.st, "CH347StreamI2C", iIndex,
                          << 2, iDevice, iAddr, 1 >>, res, ub),
        ret |-> res]

CH341ReadI2C(s, iIndex, iDevice, iAddr, oByte, res, ub) ==
  LET L == LoadCH347DLL([s EXCEPT !.inp = << iDevice, iAddr, oByte >>]) IN
  IF ~L.ret THEN [st |-> L.st, ret |-> BFALSE]
  ELSE IF L.st.fp["CH347StreamI2C"] = NULL THEN [st |-> L.st, ret |-> BFALSE]
  ELSE IF oByte = NULL THEN [st |-> L.st, ret |-> BFALSE]
  ELSE [st |-> CallTarget(L.st, "CH347StreamI2C", iIndex,
                          << 2, (iDevice * 2) % 256, iAddr, 1 >>, res, ub),
        ret |-> res]

\* CH341WriteI2C asking for a byte back
CH341WriteI2C_ReadsBack(s, iIndex, iDevice, iAddr, iByte, res, ub) ==
  LET L == LoadCH347DLL([s EXCEPT !.inp = << iDevice, iAddr, iByte >>]) IN
  IF ~L.ret THEN [st |-> L.st, ret |-> BFALSE]
  ELSE IF L.st.fp["CH347StreamI2C"] = NULL THEN [st |-> L.st, ret |-> BFALSE]
  ELSE [st |-> CallTarget(L.st, "CH347StreamI2C", iIndex,
                          << 3, (iDevice * 2) % 256, iAddr, iByte, 1 >>, res, ub),
        ret |-> res]

CH341WriteI2C(s, iIndex, iDevice, iAddr, iByte, res, ub) ==
  LET L == LoadCH347DLL([s EXCEPT !.inp = << iDevice, iAddr, iByte >>]) IN
  IF ~L.ret THEN [st |-> L.st, ret |-> BFALSE]
  ELSE IF L.st.fp["CH347StreamI2C"] = NULL THEN [st |-> L.st, ret |-> BFALSE]
  ELSE [st |-> CallTarget(L.st, "CH347StreamI2C", iIndex,
                          << 3, (iDevice * 2) % 256, iAddr, iByte, 0 >>, res, ub),
        ret |-> res]

\* ------------------------------------------------------------ GPIO
\* CH341GetInput putting the direction byte above the data byte
CH341GetInput_WithDirection(s, iIndex, iStatus, res, ub) ==
  LET L == LoadCH347DLL([s EXCEPT !.inp = << iStatus >>]) IN
  IF ~L.ret THEN [st |-> L.st, ret |-> BFALSE]
  ELSE IF L.st.fp["CH347GPIO_Get"] = NULL THEN [st |-> L.st, ret |-> BFALSE]
  ELSE IF iStatus = NULL THEN [st |-> L.st, ret |-> BFALSE]
  ELSE
    LET s1 == CallTarget(L.st, "CH347GPIO_Get", iIndex, << >>, res, ub) IN
    IF res.ok = BFALSE \/ s1.crashed THEN [st |-> s1, ret |-> BFALSE]
    ELSE [st |-> [s1 EXCEPT !.out = << ((res.dir % 256) * 256) + (res.data % 256) >>],
          ret |-> BTRUE]

\* res is the driver's answer: its BOOL result and the two UCHARs it stored;
\* *iStatus = (ULONG)data
CH341GetInput(s, iIndex, iStatus, res, ub) ==
  LET L == LoadCH347DLL([s EXCEPT !.inp = << iStatus >>]) IN
  IF ~L.ret THEN [st |-> L.st, ret |-> BFALSE]
  ELSE IF L.st.fp["CH347GPIO_Get"] = NULL THEN [st |-> L.st, ret |-> BFALSE]
  ELSE IF iStatus = NULL THEN [st |-> L.st, ret |-> BFALSE]
  ELSE
    LET s1 == CallTarget(L.st, "CH347GPIO_Get", iIndex, << >>, res, ub) IN
    IF res.ok = BFALSE \/ s1.crashed THEN [st |-> s1, ret |-> BFALSE]
    ELSE [st |-> [s1 EXCEPT !.out = << res.data % 256 >>], ret |-> BTRUE]

\* x & (1 << b) # 0
Bit(x, b) == (x \div (2 ^ b)) % 2 = 1

\* CH341SetOutput gating the data byte on bit 3 and the direction byte on bit 2
CH341SetOutput_SwappedGates(s, iIndex, iEnable, iSetDirOut, iSetDataOut, res, ub) ==
  LET L == LoadCH347DLL([s EXCEPT !.inp = << iEnable, iSetDirOut, iSetDataOut >>]) IN
  IF ~L.ret THEN [st |-> L.st, ret |-> BFALSE]
  ELSE IF L.st.fp["CH347GPIO_Set"] = NULL THEN [st |-> L.st, ret |-> BFALSE]
  ELSE
    LET dataOut == IF Bit(iEnable, 3) THEN iSetDataOut % 256 ELSE 0
        dirOut == IF Bit(iEnable, 2) THEN iSetDirOut % 256 ELSE 0
    IN [st |-> CallTarget(L.st, "CH347GPIO_Set", iIndex, << 255, dirOut, dataOut >>, res, ub),
        ret |-> res]

CH341SetOutput(s, iIndex, iEnable, iSetDirOut, iSetDataOut, res, ub) ==
  LET L == LoadCH347DLL([s EXCEPT !.inp = << iEnable, iSetDirOut, iSetDataOut >>]) IN
  IF ~L.ret THEN [st |-> L.st, ret |-> BFALSE]
  ELSE IF L.st.fp["CH347GPIO_Set"] = NULL THEN [st |-> L.st, ret |-> BFALSE]
  ELSE
    LET dataOut == IF Bit(iEnable, 2) THEN iSetDataOut % 256 ELSE 0
        dirOut == IF Bit(iEnable, 3) THEN iSetDirOut % 256 ELSE 0
    IN [st |-> CallTarget(L.st, "CH347GPIO_Set", iIndex, << 255, dirOut, dataOut >>, res, ub),
        ret |-> res]

\* ------------------------------------------------------------ bulk data
\* totalRead += readLen, in ULONG; the totals here stay far below 2^32, where
\* the sum would wrap
ULongAdd(a, b) == a + b

\* The read loop from its i-th pass on.  reads[i] is the driver's answer to
\* the i-th CH347ReadData call: its BOOL result and the length it stored.
RECURSIVE ReadLoop(_, _, _, _, _, _, _, _)
ReadLoop(s, iIndex, iReadStep, iReadTimes, reads, i, totalRead, ub) ==
  IF i > iReadTimes THEN [st |-> s, total |-> totalRead]
  ELSE
    LET s1 == CallTarget(s, "CH347ReadData", iIndex, << iReadStep >>, reads[i], ub) IN
    IF reads[i].ok = BFALSE \/ s1.crashed THEN [st |-> s1, total |-> totalRead]
    ELSE ReadLoop(s1, iIndex, iReadStep, iReadTimes, reads, i + 1,
                  ULongAdd(totalRead, reads[i].len), ub)

\* the read part of CH341WriteRead
ReadPhase(s, iIndex, iReadStep, iReadTimes, oReadLength, oReadBuffer, reads, ub) ==
  IF oReadLength # NULL /\ oReadBuffer # NULL /\ iReadStep > 0 /\ iReadTimes > 0
  THEN LET r == ReadLoop(s, iIndex, iReadStep, iReadTimes, reads, 1, 0, ub) IN
       IF r.st.crashed THEN [st |-> r.st, ret |-> BFALSE]
       ELSE [st |-> [r.st EXCEPT !.out = << r.total >>], ret |-> BTRUE]
  ELSE [st |-> s, ret |-> BTRUE]

\* CH341WriteRead giving up, with nothing stored, when a read fails
CH341WriteRead_AllOrNothing(s, iIndex, iWriteLength, iReadStep, iReadTimes, oReadLength, oReadBuffer, wres, reads, ub) ==
  LET L == LoadCH347DLL([s EXCEPT !.inp = << iWriteLength, iReadStep, iReadTimes >>]) IN
  IF ~L.ret THEN [st |-> L.st, ret |-> BFALSE]
  ELSE IF L.st.fp["CH347WriteData"] = NULL \/ L.st.fp["CH347ReadData"] = NULL
  THEN [st |-> L.st, ret |-> BFALSE]
  ELSE
    LET s1 == IF iWriteLength > 0
              THEN CallTarget(L.st, "CH347WriteData", iIndex, << iWriteLength >>,
                              [ok |-> wres, len |-> iWriteLength], ub)
              ELSE L.st
        R == ReadPhase(s1, iIndex, iReadStep, iReadTimes, oReadLength, oReadBuffer, reads, ub)
    IN IF s1.crashed \/ (iWriteLength > 0 /\ wres = BFALSE) THEN [st |-> s1, ret |-> BFALSE]
       ELSE IF \E k \in 1 .. Len(R.st.calls) : R.st.calls[k].res.ok = BFALSE
       THEN [st |-> [R.st EXCEPT !.out = << >>], ret |-> BFALSE]
       ELSE R

\* wres is the driver's answer to the CH347WriteData call
CH341WriteRead(s, iIndex, iWriteLength, iReadStep, iReadTimes, oReadLength, oReadBuffer, wres, reads, ub) ==
  LET L == LoadCH347DLL([s EXCEPT !.inp = << iWriteLength, iReadStep, iReadTimes >>]) IN
  IF ~L.ret THEN [st |-> L.st, ret |-> BFALSE]
  ELSE IF L.st.fp["CH347WriteData"] = NULL \/ L.st.fp["CH347ReadData"] = NULL
  THEN [st |-> L.st, ret |-> BFALSE]
  ELSE
    LET s1 == IF iWriteLength > 0
              THEN CallTarget(L.st, "CH347WriteData", iIndex, << iWriteLength >>,
                              [ok |-> wres, len |-> iWriteLength], ub)
              ELSE L.st
    IN IF s1.crashed \/ (iWriteLength > 0 /\ wres = BFALSE) THEN [st |-> s1, ret |-> BFALSE]
       ELSE ReadPhase(s1, iIndex, iReadStep, iReadTimes, oReadLength, oReadBuffer, reads, ub)

\* ------------------------------------------------------------ interrupts
\* CH341SetIntRoutine keeping the slot's routine when asked to clear it
CH341SetIntRoutine_KeepsRoutine(s, iIndex, iIntRoutine, res, ub) ==
  IF iIndex >= mCH341_MAX_NUMBER
  THEN [st |-> [s EXCEPT !.inp = << iIntRoutine >>], ret |-> BFALSE]
  ELSE
    LET L == LoadCH347DLL([s EXCEPT !.inp = << iIntRoutine >>]) IN
    IF ~L.ret THEN [st |-> L.st, ret |-> BFALSE]
    ELSE
      LET s1 == IF iIntRoutine # NULL THEN [L.st EXCEPT !.intr[iIndex] = iIntRoutine]
                ELSE L.st IN
      IF s1.fp["CH347SetIntRoutine"] = NULL THEN [st |-> s1, ret |-> BFALSE]
      ELSE IF iIntRoutine # NULL
      THEN [st |-> CallTarget(s1, "CH347SetIntRoutine", iIndex, << 0, 0, 255, 0, 1 >>, res, ub),
            ret |-> res]
      ELSE [st |-> CallTarget(s1, "CH347SetIntRoutine", iIndex, << 255, 0, 255, 0, NULL >>, res, ub),
            ret |-> res]

\* the last argument of the driver call is 1 for CH347IntWrapper, NULL for none
CH341SetIntRoutine(s, iIndex, iIntRoutine, res, ub) ==
  IF iIndex >= mCH341_MAX_NUMBER
  THEN [st |-> [s EXCEPT !.inp = << iIntRoutine >>], ret |-> BFALSE]
  ELSE
    LET L == LoadCH347DLL([s EXCEPT !.inp = << iIntRoutine >>]) IN
    IF ~L.ret THEN [st |-> L.st, ret |-> BFALSE]
    ELSE
      LET s1 == [L.st EXCEPT !.intr[iIndex] = iIntRoutine] IN
      IF s1.fp["CH347SetIntRoutine"] = NULL THEN [st |-> s1, ret |-> BFALSE]
      ELSE IF iIntRoutine # NULL
      THEN [st |-> CallTarget(s1, "CH347SetIntRoutine", iIndex, << 0, 0, 255, 0, 1 >>, res, ub),
            ret |-> res]
      ELSE [st |-> CallTarget(s1, "CH347SetIntRoutine", iIndex, << 255, 0, 255, 0, NULL >>, res, ub),
            ret |-> res]

CH341AbortInter(s, iIndex, res, ub) ==
  LET L == LoadCH347DLL(s) IN
  IF ~L.ret THEN [st |-> L.st, ret |-> BFALSE]
  ELSE IF L.st.fp["CH347AbortInter"] = NULL THEN [st |-> L.st, ret |-> BFALSE]
  ELSE [st |-> CallTarget(L.st, "CH347AbortInter", iIndex, << >>, res, ub), ret |-> res]

\* CH341ResetInter registering the routine again before it aborts
CH341ResetInter_RearmsFirst(s, iIndex, abortRes, setRes, ub) ==
  IF iIndex >= mCH341_MAX_NUMBER THEN [st |-> s, ret |-> BFALSE]
  ELSE
    LET s0 == [s EXCEPT !.inp = << s.intr[iIndex] >>] IN
    IF s0.intr[iIndex] # NULL
    THEN LET r == CH341SetIntRoutine(s0, iIndex, s0.intr[iIndex], setRes, ub) IN
         [st |-> CH341AbortInter(r.st, iIndex, abortRes, ub).st, ret |-> r.ret]
    ELSE [st |-> CH341AbortInter(s0, iIndex, abortRes, ub).st, ret |-> BTRUE]

\* inp records the routine the slot holds on entry.  The result of
\* CH341AbortInter is not looked at.
CH341ResetInter(s, iIndex, abortRes, setRes, ub) ==
  IF iIndex >= mCH341_MAX_NUMBER THEN [st |-> s, ret |-> BFALSE]
  ELSE
    LET a == CH341AbortInter([s EXCEPT !.inp = << s.intr[iIndex] >>], iIndex, abortRes, ub) IN
    IF a.st.crashed THEN [st |-> a.st, ret |-> BFALSE]
    ELSE IF a.st.intr[iIndex] # NULL
    THEN CH341SetIntRoutine(a.st, iIndex, a.st.intr[iIndex], setRes, ub)
    ELSE [st |-> a.st, ret |-> BTRUE]

\* ------------------------------------------------------------ buffer flags
\* CH341SetBufUpload setting the flag of every slot
CH341SetBufUpload_EverySlot(s, iIndex, iEnableOrClear) ==
  IF iIndex >= mCH341_MAX_NUMBER THEN [st |-> s, ret |-> BFALSE]
  ELSE [st |-> [s EXCEPT !.bufUp = [j \in Slots |-> iEnableOrClear # 0],
                         !.inp = << iEnableOrClear >>],
        ret |-> BTRUE]

CH341SetBufUpload(s, iIndex, iEnableOrClear) ==
  IF iIndex >= mCH341_MAX_NUMBER THEN [st |-> s, ret |-> BFALSE]
  ELSE [st |-> [s EXCEPT !.bufUp[iIndex] = (iEnableOrClear # 0),
                         !.inp = << iEnableOrClear >>],
        ret |-> BTRUE]

\* ------------------------------------------------------------ inputs
ChipSelectInputs == {128}
I2CDevInputs == {80, 128, 255}
I2CAddrInputs == {16, 255}
I2CByteInputs == {165}
OutPtrInputs == {NULL, 1}
EnableInputs == {12}
DirInputs == {15}
DataInputs == {165}
RoutineInputs == {NULL} \cup Callbacks
ModeInputs == {2, 129}
ChipTypeResults == {0, 1, 2, 3, 4, 255}
\* what a CH347GPIO_Get call may answer
GPIOResults == [ok : BoolResults, dir : {0, 255}, data : {0, 165, 255}]
WriteLenInputs == {0, 2}
ReadStepInputs == {0, 4}
ReadTimesInputs == 0 .. 3
\* the caller's oReadLength and oReadBuffer
ReadPtrInputs == { << 1, 1 >>, << NULL, 1 >>, << 1, NULL >> }
\* what a CH347ReadData call may answer: failure, a full read, a short read
ReadResults == { [ok |-> BFALSE, len |-> 4], [ok |-> BTRUE, len |-> 4], [ok |-> BTRUE, len |-> 3] }
Threads == 1 .. MaxThreads

NoRoundTrip == [idx |-> 0, cb |-> NULL, done |-> FALSE]

\* ------------------------------------------------------------ initial state
InitIn(envs) ==
  /\ libs \in envs
  /\ g_hCH347DLL = NULL
  /\ g_bInitialized = FALSE
  /\ fp = [sym \in Symbols |-> NULL]
  /\ refcnt = [k \in Modules |-> 0]
  /\ g_DeviceHandles = [i \in Slots |-> NULL]
  /\ g_DeviceNames = [i \in Slots |-> << >>]
  /\ g_StreamMode = [i \in Slots |-> 0]
  /\ g_SPIInitialized = [i \in Slots |-> FALSE]
  /\ g_IntRoutines = [i \in Slots |-> NULL]
  /\ g_NotifyRoutines = [i \in Slots |-> NULL]
  /\ g_BufUploadEnabled = [i \in Slots |-> FALSE]
  /\ g_BufDownloadEnabled = [i \in Slots |-> FALSE]
  /\ proc = "running"
  /\ op = [name |-> "none", idx |-> 0]
  /\ ret = 0
  /\ calls = << >>
  /\ osCalls = << >>
  /\ pre = [cfgOk |-> FALSE, phase |-> "closed", initFailed |-> FALSE]
  /\ out = << >>
  /\ inp = << >>
  /\ everReady = FALSE
  /\ attempted = FALSE
  /\ lastOpenOk = [i \in Slots |-> FALSE]
  /\ spiCfgOk = [i \in Slots |-> FALSE]
  /\ phase = [i \in Slots |-> "closed"]
  /\ initFailed = [i \in Slots |-> FALSE]
  /\ tgtInt = [i \in Slots |-> FALSE]
  /\ tpc = "idle"
  /\ ti = 0
  /\ tcached = NULL
  /\ tstatus = 0
  /\ invoked = [made |-> FALSE, slot |-> 0, cb |-> NULL, status |-> 0, registered |-> FALSE]
  /\ roundTrip = NoRoundTrip
  /\ unregistered = {}
  /\ tUnregAtEntry = {}
  /\ lateInvoked = {}
  /\ lpc = [t \in Threads |-> "idle"]
  /\ writers = {}
  /\ loads = 0

Init == InitIn(Environments)
InitFwd == InitIn(EnvironmentsFwd)
InitInt == InitIn(EnvironmentsInt)

\* ------------------------------------------------------------ actions
\* the outcomes of undefined behaviour that can differ in the current state
UBChoices == IF \E sym \in Symbols : Dangling(State, sym) THEN UBOutcomes ELSE {"run"}

PreOf(i) ==
  IF i \in Slots
  THEN [cfgOk |-> spiCfgOk[i], phase |-> phase[i], initFailed |-> initFailed[i]]
  ELSE [cfgOk |-> FALSE, phase |-> "closed", initFailed |-> FALSE]

HasCall(cs, fn) == \E k \in 1 .. Len(cs) : cs[k].fn = fn
NCalls(cs, fn) == Cardinality({k \in 1 .. Len(cs) : cs[k].fn = fn})

\* The globals and the observation after an operation that ended in state s
\* with return value r.
Commit(s, name, idx, r) ==
  /\ g_hCH347DLL' = s.hDLL
  /\ g_bInitialized' = s.init
  /\ fp' = s.fp
  /\ refcnt' = s.refcnt
  /\ g_DeviceHandles' = s.handles
  /\ g_DeviceNames' = s.names
  /\ g_StreamMode' = s.mode
  /\ g_SPIInitialized' = s.spi
  /\ g_IntRoutines' = s.intr
  /\ g_NotifyRoutines' = s.notify
  /\ g_BufUploadEnabled' = s.bufUp
  /\ g_BufDownloadEnabled' = s.bufDown
  /\ proc' = IF s.crashed THEN "crashed" ELSE IF s.detached THEN "detached" ELSE "running"
  /\ op' = [name |-> name, idx |-> idx]
  /\ ret' = r
  /\ calls' = s.calls
  /\ osCalls' = s.os
  /\ out' = s.out
  /\ inp' = s.inp
  /\ pre' = PreOf(idx)
  /\ everReady' = (everReady \/ s.init)
  /\ attempted' = (attempted \/ HasCall(s.os, "LoadLibraryA"))
  /\ UNCHANGED libs

Valid(h) == h # INVALID_HANDLE_VALUE /\ h # NULL

OpenDevice(iIndex, h, ub) ==
  /\ proc = "running"
  /\ LET r == CH341OpenDevice(State, iIndex, h, ub) IN
     /\ Commit(r.st, "CH341OpenDevice", iIndex, r.ret)
     /\ lastOpenOk' = IF iIndex \in Slots
                      THEN [lastOpenOk EXCEPT ![iIndex] = Valid(r.ret)] ELSE lastOpenOk
     /\ phase' = IF iIndex \in Slots /\ Valid(r.ret) /\ phase[iIndex] = "closed"
                 THEN [phase EXCEPT ![iIndex] = "fresh"] ELSE phase
  /\ UNCHANGED << spiCfgOk, initFailed, intVars, thrVars >>

CloseDevice(iIndex, ub) ==
  /\ proc = "running"
  /\ Commit(CH341CloseDevice(State, iIndex, ub), "CH341CloseDevice", iIndex, 0)
  /\ spiCfgOk' = IF iIndex \in Slots THEN [spiCfgOk EXCEPT ![iIndex] = FALSE] ELSE spiCfgOk
  /\ phase' = IF iIndex \in Slots THEN [phase EXCEPT ![iIndex] = "closed"] ELSE phase
  /\ UNCHANGED << lastOpenOk, initFailed, intVars, thrVars >>

ResetDevice(iIndex, h, ub) ==
  /\ proc = "running"
  /\ LET r == CH341ResetDevice(State, iIndex, h, ub)
         opened == HasCall(r.st.calls, "CH347OpenDevice") /\ Valid(h) /\ ~r.st.crashed
     IN
     /\ Commit(r.st, "CH341ResetDevice", iIndex, r.ret)
     /\ lastOpenOk' = IF iIndex \in Slots
                      THEN [lastOpenOk EXCEPT ![iIndex] = opened] ELSE lastOpenOk
     /\ phase' = IF iIndex \in Slots
                 THEN [phase EXCEPT ![iIndex] = IF opened THEN "fresh" ELSE "closed"]
                 ELSE phase
  /\ spiCfgOk' = IF iIndex \in Slots THEN [spiCfgOk EXCEPT ![iIndex] = FALSE] ELSE spiCfgOk
  /\ UNCHANGED << initFailed, intVars, thrVars >>

InitSucceeded(cs, i) ==
  \E k \in 1 .. Len(cs) : cs[k].fn = "CH347SPI_Init" /\ cs[k].idx = i /\ cs[k].res # BFALSE

InitRefused(cs, i) ==
  \E k \in 1 .. Len(cs) : cs[k].fn = "CH347SPI_Init" /\ cs[k].idx = i /\ cs[k].res = BFALSE

StreamSPI4(iIndex, iChipSelect, initRes, dataRes, ub) ==
  /\ proc = "running"
  /\ LET r == CH341StreamSPI4(State, iIndex, iChipSelect, initRes, dataRes, ub) IN
     /\ Commit(r.st, "CH341StreamSPI4", iIndex, r.ret)
     /\ spiCfgOk' = IF iIndex \in Slots /\ InitSucceeded(r.st.calls, iIndex)
                    THEN [spiCfgOk EXCEPT ![iIndex] = TRUE] ELSE spiCfgOk
  /\ phase' = IF iIndex \in Slots /\ phase[iIndex] = "fresh"
              THEN [phase EXCEPT ![iIndex] = "used"] ELSE phase
  /\ initFailed' = IF iIndex \in Slots
                   THEN [initFailed EXCEPT ![iIndex] = InitRefused(calls', iIndex)]
                   ELSE initFailed
  /\ UNCHANGED << lastOpenOk, intVars, thrVars >>

ReadI2C(iIndex, iDevice, iAddr, oByte, res, ub) ==
  /\ proc = "running"
  /\ LET r == CH341ReadI2C(State, iIndex, iDevice, iAddr, oByte, res, ub) IN
     Commit(r.st, "CH341ReadI2C", iIndex, r.ret)
  /\ UNCHANGED << lastOpenOk, spiCfgOk, phase, initFailed, intVars, thrVars >>

WriteI2C(iIndex, iDevice, iAddr, iByte, res, ub) ==
  /\ proc = "running"
  /\ LET r == CH341WriteI2C(State, iIndex, iDevice, iAddr, iByte, res, ub) IN
     Commit(r.st, "CH341WriteI2C", iIndex, r.ret)
  /\ UNCHANGED << lastOpenOk, spiCfgOk, phase, initFailed, intVars, thrVars >>

SetOutput(iIndex, iEnable, iSetDirOut, iSetDataOut, res, ub) ==
  /\ proc = "running"
  /\ LET r == CH341SetOutput(State, iIndex, iEnable, iSetDirOut, iSetDataOut, res, ub) IN
     Commit(r.st, "CH341SetOutput", iIndex, r.ret)
  /\ UNCHANGED << lastOpenOk, spiCfgOk, phase, initFailed, intVars, thrVars >>

\* DllMain(DLL_PROCESS_DETACH); DLL_PROCESS_ATTACH changes nothing
DllMainDetach(s) ==
  LET s1 == IF s.hDLL # NULL THEN [FreeLibrary(s, s.hDLL) EXCEPT !.hDLL = NULL] ELSE s
  IN [s1 EXCEPT !.init = FALSE, !.detached = TRUE]

ProcessDetach ==
  /\ proc = "running"
  /\ Commit(DllMainDetach(State), "DllMain", 0, BTRUE)
  /\ UNCHANGED << lastOpenOk, spiCfgOk, phase, initFailed, intVars, thrVars >>

\* open, close, reset, SPI transfer and process teardown
Next ==
  \/ \E i \in IndexInputs, h \in HandleResults, ub \in UBChoices : OpenDevice(i, h, ub)
  \/ \E i \in IndexInputs, ub \in UBChoices : CloseDevice(i, ub)
  \/ \E i \in IndexInputs, h \in HandleResults, ub \in UBChoices : ResetDevice(i, h, ub)
  \/ \E i \in IndexInputs, cs \in ChipSelectInputs, a \in BoolResults, b \in BoolResults,
        ub \in UBChoices : StreamSPI4(i, cs, a, b, ub)
  \/ ProcessDetach

Spec == Init /\ [][Next]_vars

\* the operations that forward to the driver without touching the slot table
NextFwd ==
  \/ \E i \in IndexInputs, d \in I2CDevInputs, a \in I2CAddrInputs, o \in OutPtrInputs,
        res \in BoolResults, ub \in UBChoices : ReadI2C(i, d, a, o, res, ub)
  \/ \E i \in IndexInputs, d \in I2CDevInputs, a \in I2CAddrInputs, v \in I2CByteInputs,
        res \in BoolResults, ub \in UBChoices : WriteI2C(i, d, a, v, res, ub)
  \/ \E i \in IndexInputs, e \in EnableInputs, d \in DirInputs, v \in DataInputs,
        res \in BoolResults, ub \in UBChoices : SetOutput(i, e, d, v, res, ub)
  \/ \E i \in IndexInputs, h \in HandleResults, ub \in UBChoices : OpenDevice(i, h, ub)
  \/ \E i \in IndexInputs, ub \in UBChoices : CloseDevice(i, ub)

SpecFwd == InitFwd /\ [][NextFwd]_vars

\* ------------------------------------------------------------ missing capabilities
SetStream(iIndex, iMode, res, ub) ==
  /\ proc = "running"
  /\ LET r == CH341SetStream(State, iIndex, iMode, res, ub) IN
     Commit(r.st, "CH341SetStream", iIndex, r.ret)
  /\ UNCHANGED << lastOpenOk, spiCfgOk, phase, initFailed, intVars, thrVars >>

\* the driver library complete, or without one symbol that is not essential
EnvironmentsDeg ==
  PrimaryWithout({ {}, {"CH347I2C_Set"}, {"CH347SPI_Init"}, {"CH347StreamSPI4"},
                   {"CH347SPI_WriteRead"}, {"CH347StreamI2C"} })
InitDeg == InitIn(EnvironmentsDeg)

NextDeg ==
  \/ \E i \in IndexInputs, m \in ModeInputs, res \in BoolResults, ub \in UBChoices :
        SetStream(i, m, res, ub)
  \/ \E i \in IndexInputs, cs \in ChipSelectInputs, a \in BoolResults, b \in BoolResults,
        ub \in UBChoices : StreamSPI4(i, cs, a, b, ub)
  \/ \E i \in IndexInputs, d \in I2CDevInputs, a \in I2CAddrInputs, o \in OutPtrInputs,
        res \in BoolResults, ub \in UBChoices : ReadI2C(i, d, a, o, res, ub)
  \/ \E i \in IndexInputs, ub \in UBChoices : CloseDevice(i, ub)

SpecDeg == InitDeg /\ [][NextDeg]_vars

\* ------------------------------------------------------------ data and queries
WriteRead(iIndex, iWriteLength, iReadStep, iReadTimes, ptrs, wres, reads, ub) ==
  /\ proc = "running"
  /\ LET r == CH341WriteRead(State, iIndex, iWriteLength, iReadStep, iReadTimes,
                             ptrs[1], ptrs[2], wres, reads, ub) IN
     Commit(r.st, "CH341WriteRead", iIndex, r.ret)
  /\ UNCHANGED << lastOpenOk, spiCfgOk, phase, initFailed, intVars, thrVars >>

GetVerIC(iIndex, chipType, ub) ==
  /\ proc = "running"
  /\ LET r == CH341GetVerIC(State, iIndex, chipType, ub) IN
     Commit(r.st, "CH341GetVerIC", iIndex, r.ret)
  /\ UNCHANGED << lastOpenOk, spiCfgOk, phase, initFailed, intVars, thrVars >>

GetInput(iIndex, iStatus, res, ub) ==
  /\ proc = "running"
  /\ LET r == CH341GetInput(State, iIndex, iStatus, res, ub) IN
     Commit(r.st, "CH341GetInput", iIndex, r.ret)
  /\ UNCHANGED << lastOpenOk, spiCfgOk, phase, initFailed, intVars, thrVars >>

\* the driver's answers are enumerated for the calls that can be made
WriteAnswers(iWriteLength) == IF iWriteLength > 0 THEN BoolResults ELSE {BTRUE}
ReadAnswers(iReadStep, iReadTimes, ptrs) ==
  IF ptrs[1] # NULL /\ ptrs[2] # NULL /\ iReadStep > 0
  THEN [1 .. iReadTimes -> ReadResults] ELSE { << >> }

EnvironmentsIO ==
  { << NoLib, NoLib >>, << NoLib, Lib({}) >> } \cup
  PrimaryWithout({ {}, {"CH347WriteData"}, {"CH347ReadData"}, {"CH347GetChipType"},
                   {"CH347GPIO_Get"} })
InitIO == InitIn(EnvironmentsIO)

NextIO ==
  \/ \E i \in IndexInputs, wl \in WriteLenInputs, st \in ReadStepInputs,
        n \in ReadTimesInputs, ptrs \in ReadPtrInputs, ub \in UBChoices :
        \E wres \in WriteAnswers(wl), reads \in ReadAnswers(st, n, ptrs) :
          WriteRead(i, wl, st, n, ptrs, wres, reads, ub)
  \/ \E i \in IndexInputs, c \in ChipTypeResults, ub \in UBChoices : GetVerIC(i, c, ub)
  \/ \E i \in IndexInputs, p \in OutPtrInputs, res \in GPIOResults, ub \in UBChoices :
        GetInput(i, p, res, ub)

SpecIO == InitIO /\ [][NextIO]_vars

\* ------------------------------------------------------------ interrupt delivery
\* What the driver does with a CH347SetIntRoutine call that succeeded: it
\* holds the routine it was given for that index.
DriverIntAfter(cs) ==
  [i \in Slots |->
     IF \E k \in 1 .. Len(cs) :
          cs[k].fn = "CH347SetIntRoutine" /\ cs[k].idx = i /\ cs[k].res # BFALSE
     THEN LET k == CHOOSE k \in 1 .. Len(cs) :
                     cs[k].fn = "CH347SetIntRoutine" /\ cs[k].idx = i /\ cs[k].res # BFALSE
          IN cs[k].args[5] # NULL
     ELSE tgtInt[i]]

\* The pair of calls CH341SetIntRoutine(i, cb), CH341SetIntRoutine(i, NULL)
\* made one right after the other on an in-range index, with cb in no other
\* slot: pending after the first call, done after the second.
RoundTripAfter(iIndex, iIntRoutine) ==
  IF iIndex \in Slots /\ iIntRoutine # NULL
  THEN [idx |-> iIndex, cb |-> iIntRoutine, done |-> FALSE]
  ELSE IF /\ iIndex \in Slots /\ iIntRoutine = NULL
          /\ op.name = "CH341SetIntRoutine"
          /\ roundTrip.cb # NULL /\ ~roundTrip.done /\ roundTrip.idx = iIndex
          /\ \A j \in Slots \ {iIndex} : g_IntRoutines[j] # roundTrip.cb
  THEN [roundTrip EXCEPT !.done = TRUE]
  ELSE NoRoundTrip

SetIntRoutine(iIndex, iIntRoutine, res, ub) ==
  /\ proc = "running"
  /\ LET r == CH341SetIntRoutine(State, iIndex, iIntRoutine, res, ub) IN
     /\ Commit(r.st, "CH341SetIntRoutine", iIndex, r.ret)
     /\ tgtInt' = DriverIntAfter(r.st.calls)
  /\ roundTrip' = RoundTripAfter(iIndex, iIntRoutine)
  /\ unregistered' = IF RoundTripAfter(iIndex, iIntRoutine).done
                     THEN unregistered \cup {roundTrip.cb}
                     ELSE unregistered \ {iIntRoutine}
  /\ tUnregAtEntry' = tUnregAtEntry \ {iIntRoutine}
  /\ UNCHANGED << lastOpenOk, spiCfgOk, phase, initFailed, tpc, ti, tcached, tstatus, invoked,
                  lateInvoked, thrVars >>

appVars == << libs, bindVars, slotVars, obsVars, histVars, thrVars >>

\* CH347IntWrapper runs on a driver thread, one loop step at a time, with no
\* lock against the application thread.  iStatus is NULL or the 8-byte
\* vector, of which b0 is the first byte.
IntWrapperEnter(iStatus, b0) ==
  /\ proc = "running"
  /\ tpc = "idle"
  /\ \E i \in Slots : tgtInt[i]
  /\ tpc' = "test"
  /\ ti' = 0
  /\ tstatus' = IF iStatus # NULL THEN b0 ELSE 0
  /\ tUnregAtEntry' = unregistered
  /\ UNCHANGED << appVars, proc, tgtInt, tcached, invoked, roundTrip, unregistered,
                  lateInvoked >>

\* The loop's next index after i.  The slots no call is ever made on hold NULL
\* throughout, so the loop's steps over a run of them are taken as one.
NextScan(i) ==
  IF \E j \in InRangeInputs : j > i
  THEN CHOOSE j \in InRangeInputs : j > i /\ \A k \in InRangeInputs : k > i => j <= k
  ELSE mCH341_MAX_NUMBER

\* for (i...; i < mCH341_MAX_NUMBER; ...)  if (g_IntRoutines[i])
IntWrapperTest ==
  /\ proc = "running"
  /\ tpc = "test"
  /\ IF ti >= mCH341_MAX_NUMBER
     THEN tpc' = "idle" /\ ti' = 0 /\ tcached' = NULL
     ELSE IF g_IntRoutines[ti] # NULL
     THEN tpc' = "call" /\ ti' = ti /\ tcached' = g_IntRoutines[ti]
     ELSE tpc' = "test" /\ ti' = NextScan(ti) /\ tcached' = NULL
  /\ UNCHANGED << appVars, proc, tgtInt, tstatus, invoked, rtVars >>

\* g_IntRoutines[i](status): the unsynchronized second read of the slot gives
\* the value tested (reload = FALSE) or the value now in the slot.  A call
\* through a null pointer faults.
IntWrapperCall(reload) ==
  /\ proc = "running"
  /\ tpc = "call"
  /\ LET cb == IF reload THEN g_IntRoutines[ti] ELSE tcached IN
     /\ invoked' = [made |-> TRUE, slot |-> ti, cb |-> cb, status |-> tstatus,
                    registered |-> \E j \in Slots : g_IntRoutines[j] = cb]
     /\ proc' = IF cb = NULL THEN "crashed" ELSE proc
     /\ lateInvoked' = lateInvoked \cup ({cb} \cap tUnregAtEntry)
  /\ tpc' = "test"
  /\ ti' = NextScan(ti)
  /\ tcached' = NULL
  /\ UNCHANGED << appVars, tgtInt, tstatus, roundTrip, unregistered, tUnregAtEntry >>

StatusPtrInputs == {NULL, 1}
StatusByteInputs == {129}

NextInt ==
  \/ \E i \in IndexInputs, cb \in RoutineInputs, res \in BoolResults, ub \in UBChoices :
        SetIntRoutine(i, cb, res, ub)
  \/ \E i \in IndexInputs, ub \in UBChoices : CloseDevice(i, ub)
  \/ \E p \in StatusPtrInputs, b \in StatusByteInputs : IntWrapperEnter(p, b)
  \/ IntWrapperTest
  \/ \E reload \in BOOLEAN : IntWrapperCall(reload)

SpecInt == InitInt /\ [][NextInt]_vars

\* registration and delivery alone
EnvironmentsRT ==
  { << NoLib, NoLib >>, << Lib({"CH347OpenDevice"}), NoLib >> } \cup
  PrimaryWithout({ {}, {"CH347SetIntRoutine"} })
InitRT == InitIn(EnvironmentsRT)

NextRT ==
  \/ \E i \in IndexInputs, cb \in RoutineInputs, res \in BoolResults, ub \in UBChoices :
        SetIntRoutine(i, cb, res, ub)
  \/ \E p \in StatusPtrInputs, b \in StatusByteInputs : IntWrapperEnter(p, b)
  \/ IntWrapperTest
  \/ \E reload \in BOOLEAN : IntWrapperCall(reload)

SpecRT == InitRT /\ [][NextRT]_vars

\* ------------------------------------------------------------ concurrent first use
\* LoadCH347DLL statement by statement, run by each thread at the start of
\* its first public call; the globals are read and written with no guard.
loadRest == << libs, slotVars, proc, obsVars, histVars, intVars >>

LoadCheck(t) ==
  /\ lpc[t] = "idle"
  /\ lpc' = [lpc EXCEPT ![t] = IF g_bInitialized THEN "ready" ELSE "load1"]
  /\ UNCHANGED << bindVars, writers, loads, loadRest >>

LoadTry(t, k) ==
  /\ lpc[t] = (IF k = 1 THEN "load1" ELSE "load2")
  /\ LET r == LoadLibraryA(State, k) IN
     /\ g_hCH347DLL' = r.ret
     /\ refcnt' = r.st.refcnt
     /\ loads' = IF r.ret # NULL THEN loads + 1 ELSE loads
  /\ lpc' = [lpc EXCEPT ![t] = IF k = 1 THEN "test1" ELSE "test2"]
  /\ UNCHANGED << g_bInitialized, fp, writers, loadRest >>

LoadTest1(t) ==
  /\ lpc[t] = "test1"
  /\ lpc' = [lpc EXCEPT ![t] = IF g_hCH347DLL = NULL THEN "load2" ELSE "test2"]
  /\ UNCHANGED << bindVars, writers, loads, loadRest >>

LoadTest2(t) ==
  /\ lpc[t] = "test2"
  /\ lpc' = [lpc EXCEPT ![t] = IF g_hCH347DLL = NULL THEN "failed" ELSE "resolve"]
  /\ UNCHANGED << bindVars, writers, loads, loadRest >>

LoadResolve(t) ==
  /\ lpc[t] = "resolve"
  /\ fp' = ResolveAll(State).fp
  /\ writers' = writers \cup {t}
  /\ lpc' = [lpc EXCEPT ![t] = "essential"]
  /\ UNCHANGED << g_hCH347DLL, g_bInitialized, refcnt, loads, loadRest >>

LoadEssential(t) ==
  /\ lpc[t] = "essential"
  /\ IF fp["CH347OpenDevice"] = NULL \/ fp["CH347CloseDevice"] = NULL
     THEN /\ refcnt' = FreeLibrary(State, g_hCH347DLL).refcnt
          /\ g_hCH347DLL' = NULL
          /\ g_bInitialized' = g_bInitialized
          /\ lpc' = [lpc EXCEPT ![t] = "failed"]
     ELSE /\ g_bInitialized' = TRUE
          /\ UNCHANGED << g_hCH347DLL, refcnt >>
          /\ lpc' = [lpc EXCEPT ![t] = "ready"]
  /\ UNCHANGED << fp, writers, loads, loadRest >>

NextLoad ==
  \E t \in Threads :
    \/ LoadCheck(t)
    \/ \E k \in Modules : LoadTry(t, k)
    \/ LoadTest1(t)
    \/ LoadTest2(t)
    \/ LoadResolve(t)
    \/ LoadEssential(t)

SpecLoad == Init /\ [][NextLoad]_vars

\* ============================================================ properties
IsSPIData(c) == c.fn = "CH347StreamSPI4" \/ c.fn = "CH347SPI_WriteRead"
HasSPIData(cs) == \E k \in 1 .. Len(cs) : IsSPIData(cs[k])
NInit(cs) == NCalls(cs, "CH347SPI_Init")

\* r is the failure value of the operation (close returns nothing)
Failed(name, r) ==
  IF name = "CH341OpenDevice" THEN r = INVALID_HANDLE_VALUE
  ELSE IF name = "CH341CloseDevice" THEN TRUE
  ELSE r = BFALSE

\* C1: an operation given a device index >= 16 returns its failure value and
\* makes no call to the driver.
C1_OutOfRangeFailsClosed ==
  (op.name # "none" /\ op.idx >= mCH341_MAX_NUMBER) =>
    (calls = << >> /\ Failed(op.name, ret))

\* C2 as stated: the first transfer after an open makes exactly one
\* SPI_Init call, ahead of any data call, and every later transfer makes
\* none until the slot is closed and reopened.
C2_FirstTransferInitsOnce ==
  (op.name = "CH341StreamSPI4" /\ op.idx \in Slots) =>
    /\ pre.phase = "fresh" => (NInit(calls) = 1 /\ calls[1].fn = "CH347SPI_Init")
    /\ pre.phase = "used" => NInit(calls) = 0

\* C2 as amended: with the binding ready, a transfer on a slot with no
\* successful SPI_Init since its last close makes exactly one SPI_Init call
\* (when that symbol is resolved), ahead of any data call, and makes a data
\* call only if that SPI_Init succeeded; a transfer on a slot with a
\* successful SPI_Init since its last close makes no SPI_Init call.
C2_InitOncePerSuccess ==
  (op.name = "CH341StreamSPI4" /\ op.idx \in Slots /\ g_bInitialized) =>
    /\ pre.cfgOk => NInit(calls) = 0
    /\ (~pre.cfgOk /\ fp["CH347SPI_Init"] # NULL) =>
         (NInit(calls) = 1 /\ calls[1].fn = "CH347SPI_Init")
    /\ (~pre.cfgOk /\ HasSPIData(calls)) =>
         (calls[1].fn = "CH347SPI_Init" /\ calls[1].res # BFALSE)

\* a later transfer on an initialized slot went straight to the data call
C2_Witness ==
  /\ op.name = "CH341StreamSPI4" /\ op.idx \in Slots
  /\ pre.cfgOk /\ pre.phase = "used"
  /\ HasSPIData(calls) /\ NInit(calls) = 0

\* C3: a recorded handle is non-closed only if the binding is ready and the
\* most recent open call for that index succeeded.
C3_HandleOnlyIfReadyAndOpened ==
  \A i \in Slots : g_DeviceHandles[i] # NULL => (g_bInitialized /\ lastOpenOk[i])

\* C4: once LoadCH347DLL has made an attempt, no later call loads a library
\* or resolves a symbol.
C4_LoadAttemptedOnce ==
  [][attempted =>
       (~HasCall(osCalls', "LoadLibraryA") /\ ~HasCall(osCalls', "GetProcAddress"))]_vars

\* C5: an operation that leaves the binding not ready returns failure, calls
\* no driver function and leaves the slot table as it was.
C5_NotReadyNoEffect ==
  [][(proc = "running" /\ ~g_bInitialized' /\ op'.name # "DllMain") =>
       (calls' = << >> /\ slotVars' = slotVars /\ Failed(op'.name, ret'))]_vars

\* C6: under concurrent first use the library is loaded at most once, one
\* thread at most writes the symbol table, and a thread that finds the
\* binding ready finds both essential symbols resolved.
C6_SafeFirstUse ==
  /\ loads <= 1
  /\ Cardinality(writers) <= 1
  /\ \A t \in Threads :
       lpc[t] = "ready" => (fp["CH347OpenDevice"] # NULL /\ fp["CH347CloseDevice"] # NULL)

\* C7: the trampoline never calls a null routine, and what it calls is some
\* slot's registered routine at the moment of the call.
C7_TrampolineSafe ==
  invoked.made => (invoked.cb # NULL /\ invoked.registered)

\* C8: while the binding has never been ready, open returns
\* INVALID_HANDLE_VALUE for every index and no slot holds a handle.
C8_OpenUnboundInvalid ==
  (op.name = "CH341OpenDevice" /\ ~everReady) =>
    (ret = INVALID_HANDLE_VALUE /\ \A i \in Slots : g_DeviceHandles[i] = NULL)

\* open of an in-range index failed although the library was found and
\* exports CH347OpenDevice
C8_Witness ==
  /\ op.name = "CH341OpenDevice" /\ op.idx \in Slots /\ ~everReady
  /\ fp["CH347OpenDevice"] # NULL
  /\ ret = INVALID_HANDLE_VALUE

\* C9: after close the slot is closed, the call has not failed, and a second
\* close, whatever it meets, does not fail and changes nothing.
C9_CloseIdempotent ==
  (op.name = "CH341CloseDevice" /\ op.idx \in Slots) =>
    /\ proc = "running"
    /\ g_DeviceHandles[op.idx] = NULL /\ ~g_SPIInitialized[op.idx]
    /\ \A ub \in UBChoices :
         LET s2 == CH341CloseDevice(State, op.idx, ub) IN
         ~s2.crashed /\ SlotTable(s2) = SlotTable(State)

\* C10: spi_initialized is set only if an SPI_Init call for the slot has
\* succeeded since the slot's last close.
C10_SpiFlagOnlyAfterCfg ==
  \A i \in Slots : g_SPIInitialized[i] => spiCfgOk[i]

\* a transfer has just initialized the peripheral of a slot closed before
C10_Witness ==
  /\ op.name = "CH341StreamSPI4" /\ op.idx \in Slots
  /\ ~pre.cfgOk /\ g_SPIInitialized[op.idx]
  /\ g_DeviceHandles[op.idx] = NULL

\* C11: reset of an in-range index returns TRUE exactly when the slot holds
\* a handle after the call; it returns FALSE when CH347OpenDevice gave
\* INVALID_HANDLE_VALUE or NULL.
C11_ResetSuccessIffReopened ==
  (op.name = "CH341ResetDevice" /\ op.idx \in Slots /\ proc = "running") =>
    ((ret = BTRUE) <=> (g_DeviceHandles[op.idx] # NULL))

\* the driver was asked to stop interrupt delivery for index i
HasDisable(cs, i) ==
  \E k \in 1 .. Len(cs) :
    cs[k].fn = "CH347SetIntRoutine" /\ cs[k].idx = i /\ cs[k].args = << 255, 0, 255, 0, NULL >>

RoundTripDone == op.name = "CH341SetIntRoutine" /\ roundTrip.done /\ op.idx = roundTrip.idx

\* C12 as stated: after set_interrupt(idx, cb) and then set_interrupt(idx,
\* none), cb being in no other slot, the driver has received the disable call
\* for idx, and no trampoline run begun afterwards calls cb.
C12_RoundTripDisables ==
  /\ RoundTripDone => HasDisable(calls, roundTrip.idx)
  /\ lateInvoked = {}

\* C12 as amended: the same, the disable call being received when the
\* binding is ready and CH347SetIntRoutine is resolved.
C12_RoundTripDisablesWhenBound ==
  /\ (RoundTripDone /\ g_bInitialized /\ fp["CH347SetIntRoutine"] # NULL) =>
       HasDisable(calls, roundTrip.idx)
  /\ lateInvoked = {}

\* the driver, keeping the trampoline after a refused disable call, has run
\* it over every slot after the pair of calls, and cb was not called
C12_Witness ==
  /\ RoundTripDone /\ HasDisable(calls, roundTrip.idx)
  /\ roundTrip.cb \in tUnregAtEntry
  /\ tpc = "test" /\ ti = mCH341_MAX_NUMBER
  /\ lateInvoked = {}

\* the CH347ReadData calls among cs, in order
ReadCalls(cs) == SelectSeq(cs, LAMBDA c : c.fn = "CH347ReadData")

RECURSIVE SumOk(_)
SumOk(rs) ==
  IF rs = << >> THEN 0
  ELSE (IF Head(rs).res.ok # BFALSE THEN Head(rs).res.len ELSE 0) + SumOk(Tail(rs))

\* C13: when CH341WriteRead gets to its read phase it returns TRUE; it has
\* made the one write call (none for an empty write) before any read, at most
\* iReadTimes read calls of iReadStep bytes, none after a failed one and all
\* iReadTimes of them if none failed; and *oReadLength is the sum of the
\* lengths of the reads that succeeded.
C13_PartialReadIsSuccess ==
  (op.name = "CH341WriteRead" /\ ReadCalls(calls) # << >>) =>
    LET rs == ReadCalls(calls)
        nw == NCalls(calls, "CH347WriteData")
    IN /\ ret = BTRUE
       /\ nw = (IF inp[1] > 0 THEN 1 ELSE 0)
       /\ nw = 1 => (calls[1].fn = "CH347WriteData" /\ calls[1].res.ok # BFALSE)
       /\ Len(rs) <= inp[3]
       /\ \A k \in 1 .. Len(rs) : rs[k].args = << inp[2] >>
       /\ \A k \in 1 .. Len(rs) - 1 : rs[k].res.ok # BFALSE
       /\ (rs[Len(rs)].res.ok # BFALSE) => Len(rs) = inp[3]
       /\ out = << SumOk(rs) >>

\* step 4, times 3, the third read failing after two full ones: 8 reported
C13_Witness ==
  /\ op.name = "CH341WriteRead" /\ inp = << 2, 4, 3 >>
  /\ Len(ReadCalls(calls)) = 3
  /\ ReadCalls(calls)[3].res.ok = BFALSE
  /\ ReadCalls(calls)[1].res.len = 4 /\ ReadCalls(calls)[2].res.len = 4
  /\ ret = BTRUE /\ out = << 8 >>

\* (UCHAR)(d << 1) for an 8-bit d: the shift drops bit 7
ShiftedAddress(d) == IF d >= 128 THEN 2 * d - 256 ELSE 2 * d

StreamI2CAvailable == g_bInitialized /\ fp["CH347StreamI2C"] # NULL

\* C14: with CH347StreamI2C available, CH341ReadI2C (given somewhere to put
\* the byte) makes exactly one driver call, CH347StreamI2C writing the 2 bytes
\* [(dev*2) mod 256, addr] and reading 1, and returns its result; with it
\* unavailable, CH341ReadI2C returns FALSE and makes no driver call.
C14_ReadByteOneStreamCall ==
  (op.name = "CH341ReadI2C") =>
    /\ (StreamI2CAvailable /\ inp[3] # NULL) =>
         /\ Len(calls) = 1
         /\ calls[1].fn = "CH347StreamI2C" /\ calls[1].idx = op.idx
         /\ calls[1].args = << 2, ShiftedAddress(inp[1]), inp[2], 1 >>
         /\ ret = calls[1].res
    /\ ~StreamI2CAvailable => (calls = << >> /\ ret = BFALSE)

\* a read from device 0x80, whose shifted address wraps to 0
C14_Witness ==
  /\ op.name = "CH341ReadI2C" /\ StreamI2CAvailable
  /\ inp = << 128, 255, 1 >>
  /\ Len(calls) = 1 /\ calls[1].args = << 2, 0, 255, 1 >>

\* C15: with CH347StreamI2C available, CH341WriteI2C makes exactly one driver
\* call, CH347StreamI2C writing the 3 bytes [(dev*2) mod 256, addr, val] and
\* reading 0, and returns its result.
C15_WriteByteOneStreamCall ==
  (op.name = "CH341WriteI2C" /\ StreamI2CAvailable) =>
    /\ Len(calls) = 1
    /\ calls[1].fn = "CH347StreamI2C" /\ calls[1].idx = op.idx
    /\ calls[1].args = << 3, ShiftedAddress(inp[1]), inp[2], inp[3], 0 >>
    /\ ret = calls[1].res

\* a write to device 0xFF, whose shifted address is 0xFE
C15_Witness ==
  /\ op.name = "CH341WriteI2C" /\ StreamI2CAvailable
  /\ inp = << 255, 16, 165 >>
  /\ Len(calls) = 1 /\ calls[1].args = << 3, 254, 16, 165, 0 >>

\* a library file that loads and exports both essential symbols
Usable(k) ==
  libs[k].present /\ {"CH347OpenDevice", "CH347CloseDevice"} \subseteq libs[k].exports

\* C16: once LoadCH347DLL has run, the binding is ready exactly when one of
\* the two library files is usable, and it is bound to the first usable one:
\* to the fallback when the primary loads without an essential symbol.
C16_FirstUsableWins ==
  (attempted /\ proc = "running") =>
    IF \E k \in Modules : Usable(k)
    THEN /\ g_bInitialized
         /\ Usable(g_hCH347DLL)
         /\ \A k \in Modules : Usable(k) => g_hCH347DLL <= k
    ELSE ~g_bInitialized

\* The driver function each operation is mapped to (the API table of
\* src/README.md).
Needs(name) ==
  CASE name = "CH341SetStream" -> {"CH347I2C_Set"}
    [] name = "CH341StreamSPI4" -> {"CH347StreamSPI4"}
    [] name = "CH341ReadI2C" -> {"CH347StreamI2C"}
    [] OTHER -> {}

Unresolved == {sym \in Symbols : fp[sym] = NULL}
AllResolved == [State EXCEPT !.fp = [sym \in Symbols |-> g_hCH347DLL]]

\* two runs of an operation that differ in nothing the caller can see
SameOutcome(a, b) ==
  a.ret = b.ret /\ a.st.calls = b.st.calls /\ SlotTable(a.st) = SlotTable(b.st)

\* C17: with the binding ready and one non-essential symbol unresolved, an
\* operation mapped to that symbol returns FALSE and calls no driver function,
\* and any other operation does what it does with every symbol resolved.
C17_DegradesPerCapability ==
  (g_bInitialized /\ Cardinality(Unresolved) = 1) =>
    /\ (Needs(op.name) \cap Unresolved # {}) => (ret = BFALSE /\ calls = << >>)
    /\ \A i \in IndexInputs, res \in BoolResults :
         /\ Needs("CH341SetStream") \cap Unresolved = {} =>
              \A m \in ModeInputs :
                SameOutcome(CH341SetStream(State, i, m, res, "run"),
                            CH341SetStream(AllResolved, i, m, res, "run"))
         /\ Needs("CH341ReadI2C") \cap Unresolved = {} =>
              \A d \in I2CDevInputs, a \in I2CAddrInputs :
                SameOutcome(CH341ReadI2C(State, i, d, a, 1, res, "run"),
                            CH341ReadI2C(AllResolved, i, d, a, 1, res, "run"))
         /\ Needs("CH341StreamSPI4") \cap Unresolved = {} =>
              \A cs \in ChipSelectInputs, b \in BoolResults :
                SameOutcome(CH341StreamSPI4(State, i, cs, res, b, "run"),
                            CH341StreamSPI4(AllResolved, i, cs, res, b, "run"))

\* C18: CH341GetVerIC returns IC_VER_CH341A, not a failure value, when the
\* binding is not ready, and when CH347GetChipType answers a code other than
\* 0, 1, 2, 3.
C18_VersionDefaultsToOlder ==
  (op.name = "CH341GetVerIC") =>
    /\ ~g_bInitialized => ret = IC_VER_CH341A
    /\ (calls # << >> /\ calls[1].res \notin {0, 1, 2, 3}) => ret = IC_VER_CH341A

\* C19: a transfer whose SPI_Init call failed returns FALSE with no data
\* call and leaves spi_initialized false; and from then until the slot's next
\* transfer, whatever else is called, a transfer on the slot starts with an
\* SPI_Init call.
C19_FailedInitIsRetried ==
  /\ (op.name = "CH341StreamSPI4" /\ op.idx \in Slots /\ InitRefused(calls, op.idx)) =>
       (ret = BFALSE /\ ~HasSPIData(calls) /\ ~g_SPIInitialized[op.idx])
  /\ \A i \in Slots :
       (initFailed[i] /\ proc = "running") =>
         \A cs \in ChipSelectInputs, a \in BoolResults, b \in BoolResults, ub \in UBChoices :
           LET r == CH341StreamSPI4(State, i, cs, a, b, ub) IN
           r.st.calls # << >> /\ r.st.calls[1].fn = "CH347SPI_Init"

\* the slot's transfer before this one had its SPI_Init call refused, and
\* this one has made the call again, with success, and gone on to the data
C19_Witness ==
  /\ op.name = "CH341StreamSPI4" /\ op.idx \in Slots
  /\ pre.initFailed
  /\ Len(calls) = 2 /\ calls[1].fn = "CH347SPI_Init" /\ calls[1].res = BTRUE
  /\ ~initFailed[op.idx] /\ g_SPIInitialized[op.idx]

\* C20: when CH341GetInput returns TRUE the status word it stored is the data
\* byte the driver reported, so below 256, whatever the direction byte; when
\* the driver call fails it returns FALSE and stores nothing.
C20_StatusIsDataByte ==
  (op.name = "CH341GetInput") =>
    /\ ret = BTRUE =>
         /\ Len(calls) = 1 /\ calls[1].fn = "CH347GPIO_Get"
         /\ out = << calls[1].res.data >>
         /\ out[1] \in 0 .. 255
    /\ (calls # << >> /\ calls[1].res.ok = BFALSE) => (ret = BFALSE /\ out = << >>)
    /\ ret # BTRUE => out = << >>

\* every pin an output and every data bit set: the status word is 0xFF
C20_Witness ==
  /\ op.name = "CH341GetInput" /\ ret = BTRUE
  /\ calls[1].res.dir = 255 /\ calls[1].res.data = 255
  /\ out = << 255 >>

\* C21: after CH341SetIntRoutine(index, cb) on an in-range index, whatever it
\* returned, g_IntRoutines[index] is cb.
C21_RoutineRecordedWhateverOutcome ==
  (op.name = "CH341SetIntRoutine" /\ op.idx \in Slots /\ proc = "running") =>
    g_IntRoutines[op.idx] = inp[1]

\* ------------------------------------------------------------ library lifetime
\* first use by several threads, then process teardown once they are done
Quiescent == \A t \in Threads : lpc[t] \in {"idle", "ready", "failed"}

NextLife ==
  \/ proc = "running" /\ NextLoad
  \/ Quiescent /\ ProcessDetach

SpecLife == Init /\ [][NextLife]_vars

\* C22: every load of a library is matched by one release: the bound library
\* is held exactly once while the binding is ready and is not released before
\* teardown; after teardown no library is held, g_hCH347DLL is NULL and
\* g_bInitialized is FALSE.
C22_LoadsMatchReleases ==
  /\ (proc = "running" /\ g_bInitialized /\ Quiescent) =>
       /\ g_hCH347DLL # NULL
       /\ refcnt[g_hCH347DLL] = 1
       /\ \A k \in Modules : k # g_hCH347DLL => refcnt[k] = 0
  /\ proc = "detached" =>
       /\ g_hCH347DLL = NULL
       /\ ~g_bInitialized
       /\ \A k \in Modules : refcnt[k] = 0

\* C23: CH341SetStream or CH341StreamSPI4 issued on a slot that is not open
\* (g_DeviceHandles[index] is NULL) leaves g_StreamMode[index] and
\* g_SPIInitialized[index] as they were.
C23_ClosedSlotKeepsModeAndSpi ==
  [][(/\ op'.name \in {"CH341SetStream", "CH341StreamSPI4"}
      /\ op'.idx \in Slots
      /\ g_DeviceHandles[op'.idx] = NULL)
     => /\ g_StreamMode'[op'.idx] = g_StreamMode[op'.idx]
        /\ g_SPIInitialized'[op'.idx] = g_SPIInitialized[op'.idx]]_vars

\* C25: with the binding ready, CH341SetStream(index, mode) on an in-range
\* index stores mode in g_StreamMode[index], makes one CH347I2C_Set call with
\* mode % 4 and returns that call's result.
C25_SetStreamPassesLowTwoBits ==
  (/\ op.name = "CH341SetStream"
   /\ op.idx \in Slots
   /\ proc = "running"
   /\ g_bInitialized)
  => /\ g_StreamMode[op.idx] = inp[1]
     /\ Len(calls) = 1
     /\ calls[1].fn = "CH347I2C_Set"
     /\ calls[1].idx = op.idx
     /\ calls[1].args = << inp[1] % 4 >>
     /\ ret = calls[1].res

\* ------------------------------------------------------------ GPIO output
\* enable masks with bits 2 and 3 in every combination, alone and among the
\* other bits; direction and data values wider than a byte
EnableMasks == {0, 4, 8, 12, 243, 247, 255}
WideDirInputs == DirInputs \cup {271}
WideDataInputs == DataInputs \cup {421}
EnvironmentsGPIO ==
  { << NoLib, NoLib >> } \cup PrimaryWithout({ {}, {"CH347GPIO_Set"}, {"CH347GPIO_Get"} })
InitGPIO == InitIn(EnvironmentsGPIO)

NextGPIO ==
  \/ \E i \in IndexInputs, e \in EnableMasks, d \in WideDirInputs, v \in WideDataInputs,
        res \in BoolResults, ub \in UBChoices : SetOutput(i, e, d, v, res, ub)
  \/ \E i \in IndexInputs, o \in OutPtrInputs, res \in GPIOResults, ub \in UBChoices :
        GetInput(i, o, res, ub)

SpecGPIO == InitGPIO /\ [][NextGPIO]_vars

\* C27: CH341SetOutput(index, enable, dir, data), when the binding is ready
\* and CH347GPIO_Set is resolved, makes exactly one CH347GPIO_Set call, with
\* enable vector 0xFF, direction byte dir % 256 if bit 3 of enable is set and
\* 0 otherwise, data byte data % 256 if bit 2 is set and 0 otherwise, whatever
\* the other bits of enable are, and returns the call's result.
C27_SetOutputGatesOnBits2And3 ==
  (/\ op.name = "CH341SetOutput"
   /\ proc = "running"
   /\ g_bInitialized
   /\ fp["CH347GPIO_Set"] # NULL)
  => /\ Len(calls) = 1
     /\ calls[1].fn = "CH347GPIO_Set"
     /\ calls[1].idx = op.idx
     /\ calls[1].args = << 255,
                           IF (inp[1] \div 8) % 2 = 1 THEN inp[2] % 256 ELSE 0,
                           IF (inp[1] \div 4) % 2 = 1 THEN inp[3] % 256 ELSE 0 >>
     /\ ret = calls[1].res

\* reached: only bit 2 set among all other bits clear, values wider than a byte
C27_Witness ==
  /\ op.name = "CH341SetOutput"
  /\ inp = << 4, 271, 421 >>
  /\ Len(calls) = 1
  /\ calls[1].args = << 255, 0, 165 >>


\* ------------------------------------------------------------ interrupt reset
ResetInter(iIndex, abortRes, setRes, ub) ==
  /\ proc = "running"
  /\ LET r == CH341ResetInter(State, iIndex, abortRes, setRes, ub) IN
     /\ Commit(r.st, "CH341ResetInter", iIndex, r.ret)
     /\ tgtInt' = DriverIntAfter(r.st.calls)
  /\ roundTrip' = NoRoundTrip
  /\ UNCHANGED << lastOpenOk, spiCfgOk, phase, initFailed, tpc, ti, tcached, tstatus, invoked,
                  unregistered, tUnregAtEntry, lateInvoked, thrVars >>

EnvironmentsRI ==
  { << NoLib, NoLib >> } \cup
  PrimaryWithout({ {}, {"CH347AbortInter"}, {"CH347SetIntRoutine"} })
InitRI == InitIn(EnvironmentsRI)

NextRI ==
  \/ \E i \in IndexInputs, cb \in RoutineInputs, res \in BoolResults, ub \in UBChoices :
        SetIntRoutine(i, cb, res, ub)
  \/ \E i \in IndexInputs, a \in BoolResults, b \in BoolResults, ub \in UBChoices :
        ResetInter(i, a, b, ub)

SpecRI == InitRI /\ [][NextRI]_vars

\* what CH341ResetInter has done: the abort call first, then one registration
\* of the trampoline exactly if the slot held a routine on entry, and nothing
\* else; the slot's routine is what it was
AbortsThenRearms ==
  /\ Len(calls) >= 1
  /\ calls[1].fn = "CH347AbortInter"
  /\ calls[1].idx = op.idx
  /\ g_IntRoutines[op.idx] = inp[1]
  /\ IF inp[1] # NULL
     THEN /\ Len(calls) = 2
          /\ calls[2].fn = "CH347SetIntRoutine"
          /\ calls[2].idx = op.idx
          /\ calls[2].args[5] # NULL
     ELSE Len(calls) = 1

\* C26: CH341ResetInter(index) on an in-range index makes the abort call
\* first and then exactly one registration call if and only if the slot holds
\* a routine; the slot's routine is unchanged and nothing else is retried.
C26_ResetInterAbortsThenRearms ==
  (op.name = "CH341ResetInter" /\ op.idx \in Slots /\ proc = "running") => AbortsThenRearms

\* C26 as amended: the same, when the binding is ready and CH347AbortInter and
\* CH347SetIntRoutine are both resolved.
C26_ResetInterAbortsThenRearmsWhenBound ==
  (/\ op.name = "CH341ResetInter" /\ op.idx \in Slots /\ proc = "running"
   /\ g_bInitialized
   /\ fp["CH347AbortInter"] # NULL
   /\ fp["CH347SetIntRoutine"] # NULL) => AbortsThenRearms

\* reached: a reset on a slot holding a routine, the abort refused and the
\* registration made all the same
C26_Witness ==
  /\ op.name = "CH341ResetInter" /\ op.idx \in Slots
  /\ inp[1] # NULL
  /\ Len(calls) = 2
  /\ calls[1].fn = "CH347AbortInter" /\ calls[1].res = BFALSE
  /\ calls[2].fn = "CH347SetIntRoutine"


\* ------------------------------------------------------------ several slots
SetBufUpload(iIndex, iEnableOrClear) ==
  /\ proc = "running"
  /\ LET r == CH341SetBufUpload(State, iIndex, iEnableOrClear) IN
     Commit(r.st, "CH341SetBufUpload", iIndex, r.ret)
  /\ UNCHANGED << lastOpenOk, spiCfgOk, phase, initFailed, intVars, thrVars >>

\* calls on the first slot and on the last one, with a complete library and
\* a driver that accepts every call
FrameIndexInputs == {0, mCH341_MAX_NUMBER - 1}
BufFlagInputs == {0, 2}
InitFrame == InitIn(PrimaryWithout({ {} }))

NextFrame ==
  \/ \E i \in FrameIndexInputs, h \in HandleResults \ {NULL, INVALID_HANDLE_VALUE},
        ub \in UBChoices : OpenDevice(i, h, ub)
  \/ \E i \in FrameIndexInputs, cs \in ChipSelectInputs, ub \in UBChoices :
        StreamSPI4(i, cs, BTRUE, BTRUE, ub)
  \/ \E i \in FrameIndexInputs, cb \in RoutineInputs, ub \in UBChoices :
        SetIntRoutine(i, cb, BTRUE, ub)
  \/ \E i \in FrameIndexInputs, e \in BufFlagInputs : SetBufUpload(i, e)

SpecFrame == InitFrame /\ [][NextFrame]_vars

\* everything kept for slot j is left as it is
SlotUnchanged(j) ==
  /\ g_DeviceHandles'[j] = g_DeviceHandles[j]
  /\ g_DeviceNames'[j] = g_DeviceNames[j]
  /\ g_StreamMode'[j] = g_StreamMode[j]
  /\ g_SPIInitialized'[j] = g_SPIInitialized[j]
  /\ g_IntRoutines'[j] = g_IntRoutines[j]
  /\ g_NotifyRoutines'[j] = g_NotifyRoutines[j]
  /\ g_BufUploadEnabled'[j] = g_BufUploadEnabled[j]
  /\ g_BufDownloadEnabled'[j] = g_BufDownloadEnabled[j]

\* C28: an operation called with index i leaves everything kept for every
\* other slot j as it was and passes i to every driver call it makes.
C28_OtherSlotsUntouched ==
  [][/\ \A j \in Slots : j # op'.idx => SlotUnchanged(j)
     /\ \A k \in 1 .. Len(calls') : calls'[k].idx = op'.idx]_vars

\* reached: slot 0 open with a routine and its upload flag set, and then a
\* transfer on the last slot that configured that slot's SPI
C28_Witness ==
  /\ op.name = "CH341StreamSPI4" /\ op.idx = mCH341_MAX_NUMBER - 1
  /\ g_SPIInitialized[op.idx] /\ ~g_SPIInitialized[0]
  /\ g_DeviceHandles[0] # NULL /\ g_DeviceHandles[op.idx] = NULL
  /\ g_IntRoutines[0] # NULL /\ g_IntRoutines[op.idx] = NULL
  /\ g_BufUploadEnabled[0]
  /\ \E k \in 1 .. Len(calls) : calls[k].idx = op.idx


\* ------------------------------------------------------------ close and interrupts
\* reset, close, registration and the buffer flag on the last slot by the
\* application thread, the trampoline on the driver's, with a complete library
\* and a driver that accepts every registration
InitKeep == InitIn(PrimaryWithout({ {} }))
KeepIndexInputs == {mCH341_MAX_NUMBER - 1}

NextKeep ==
  \/ \E i \in KeepIndexInputs, h \in HandleResults \ {NULL}, ub \in UBChoices :
        ResetDevice(i, h, ub)
  \/ \E i \in KeepIndexInputs, ub \in UBChoices : CloseDevice(i, ub)
  \/ \E i \in KeepIndexInputs, cb \in RoutineInputs, ub \in UBChoices :
        SetIntRoutine(i, cb, BTRUE, ub)
  \/ \E i \in KeepIndexInputs, e \in BufFlagInputs : SetBufUpload(i, e)
  \/ \E p \in StatusPtrInputs, b \in StatusByteInputs : IntWrapperEnter(p, b)
  \/ IntWrapperTest
  \/ \E reload \in BOOLEAN : IntWrapperCall(reload)

SpecKeep == InitKeep /\ [][NextKeep]_vars

\* C24: a run of CH347IntWrapper, slot by slot in index order: at a slot
\* holding a routine it calls that slot's routine, once, with the status byte
\* taken on entry (the first byte of the vector, 0 without a vector); at a
\* slot holding NULL it calls nothing; no step of it changes the slot table.
TrampolineStep == << tpc, ti >> # << tpc', ti' >>
C24_FanOutToEveryRoutine ==
  [][/\ TrampolineStep => UNCHANGED slotVars
     /\ (tpc = "idle" /\ tpc' = "test") => (tstatus' \in {0} \cup StatusByteInputs /\ ti' = 0)
     /\ (tpc = "test" /\ TrampolineStep /\ ti < mCH341_MAX_NUMBER) =>
          IF g_IntRoutines[ti] # NULL
          THEN tpc' = "call" /\ ti' = ti /\ invoked' = invoked
          ELSE tpc' = "test" /\ ti' > ti /\ invoked' = invoked
     /\ (tpc = "call" /\ TrampolineStep) =>
          /\ g_IntRoutines[ti] # NULL
          /\ invoked' = [made |-> TRUE, slot |-> ti, cb |-> g_IntRoutines[ti],
                         status |-> tstatus, registered |-> TRUE]
          /\ tpc' = "test" /\ ti' > ti]_vars

\* C29: CH341CloseDevice and CH341ResetDevice leave the slot's interrupt
\* routine, notify routine, stream mode and buffer flags as they were, and
\* the trampoline, reaching a slot that holds a routine, calls it whether the
\* slot is open or closed, as long as CH341SetIntRoutine has not replaced it.
C29_CloseKeepsRoutines ==
  [][/\ (op'.name \in {"CH341CloseDevice", "CH341ResetDevice"} /\ op'.idx \in Slots) =>
          /\ g_IntRoutines'[op'.idx] = g_IntRoutines[op'.idx]
          /\ g_NotifyRoutines'[op'.idx] = g_NotifyRoutines[op'.idx]
          /\ g_StreamMode'[op'.idx] = g_StreamMode[op'.idx]
          /\ g_BufUploadEnabled'[op'.idx] = g_BufUploadEnabled[op'.idx]
          /\ g_BufDownloadEnabled'[op'.idx] = g_BufDownloadEnabled[op'.idx]
     /\ (tpc = "test" /\ TrampolineStep /\ ti < mCH341_MAX_NUMBER /\ g_IntRoutines[ti] # NULL) =>
          tpc' = "call" /\ ti' = ti
     /\ (tpc = "call" /\ TrampolineStep /\ g_IntRoutines[ti] = tcached) =>
          /\ invoked'.made /\ invoked'.slot = ti
          /\ invoked'.cb = g_IntRoutines[ti] /\ invoked'.cb # NULL]_vars

\* reached: a slot opened by a reset, given a routine and an upload flag,
\* then closed, and the trampoline has called the routine after the close
C29_Witness ==
  /\ op.name = "CH341CloseDevice" /\ op.idx \in Slots
  /\ HasCall(calls, "CH347CloseDevice")
  /\ g_DeviceHandles[op.idx] = NULL
  /\ g_DeviceNames[op.idx] # << >>
  /\ g_BufUploadEnabled[op.idx]
  /\ tpc = "test" /\ ti > op.idx
  /\ invoked.made /\ invoked.slot = op.idx
  /\ invoked.cb # NULL /\ invoked.cb = g_IntRoutines[op.idx]

====
